---- MODULE Spec2Model ----
(***************************************************************************)
(* Booking and scheduling engine of the gym service: WorkoutService        *)
(* (bookWorkout, cancelBooking) and FeedbackService (addFeedback) over the *)
(* Booking and Feedback collections.                                       *)
(*                                                                         *)
(* Time is an integer number of milliseconds of local time; instant 0 is   *)
(* local midnight of day 0.  Every request handler is a process that runs  *)
(* from one await on the database to the next in one step.                 *)
(***************************************************************************)
EXTENDS Integers, Sequences, FiniteSets, TLC

VARIABLES now, bookings, feedbacks, req, catalog,
          WorkoutModel, WorkoutOption, CoachDataModel,
          User, issued,
          db, app

\* the collections of the coach profiles, of the accounts, and the database
\* connection of the service
mapVars == <<WorkoutModel, WorkoutOption, CoachDataModel>>
authVars == <<User, issued>>
dbVars == <<db, app>>
gymVars == <<bookings, feedbacks, catalog>>

vars == <<now, bookings, feedbacks, req, catalog, mapVars, authVars, dbVars>>

(***************************************************************************)
(* Bounds of the model.                                                    *)
(***************************************************************************)
MaxBookings == 2
MaxWorkouts == 4
MaxDrops == 2

(***************************************************************************)
(* Time arithmetic of the JavaScript Date calls the services use.          *)
(***************************************************************************)
MsPerMinute == 1000 * 60
MsPerHour == 1000 * 60 * 60
MsPerDay == 24 * 60 * 60 * 1000
LeadHours == 12

Day(d) == d * MsPerDay

\* new Date(NaN): what parsing an unparsable date string yields
InvalidDate == 0 - 1

\* d.setHours(0, 0, 0, 0)
startOfDay(t) == (t \div MsPerDay) * MsPerDay

\* d.setHours(23, 59, 59, 999)
endOfDay(t) == startOfDay(t) + 23 * MsPerHour + 59 * MsPerMinute + 59 * 1000 + 999

\* d.setHours(hours, minutes, 0, 0) with [hours, minutes] = "HH:MM".split(":").map(Number)
setHours(t, hm) == startOfDay(t) + hm[1] * MsPerHour + hm[2] * MsPerMinute

(***************************************************************************)
(* Reference data: user directory, workout mappings, time-slot catalog.    *)
(***************************************************************************)
Clients == {"x", "y"}
Coaches == {"a", "b"}
Users == Clients \cup Coaches
NoUser == "none"
Procs == {"r1", "r2"}

\* UserService.getCoachData / getUserData: the profile, or null when the
\* directory has no such user or the HTTP call fails (answered = FALSE)
getCoachData(id, answered) == IF answered /\ id \in Coaches THEN id ELSE NoUser
getUserData(id, answered) == IF answered /\ id \in Users THEN id ELSE NoUser

\* Workout collection, mapping id -> coach offering a workout type, as the
\* requests find it: each coach offers workout type 1
InitialWorkouts ==
    (1 :> [coachId |-> "a", workoutType |-> 1]) @@ (2 :> [coachId |-> "b", workoutType |-> 1])
WorkoutIds == {1, 2}

\* WorkoutOption documents (the workout types), and no refresh token
WorkoutTypes == {1, 2}
NoToken == [userId |-> NoUser, iat |-> 0, secret |-> "none"]

\* TimeSlot documents: id -> wall-clock start and end, as <<hours, minutes>>;
\* catalog holds the ids of the documents the collection has
TimeSlotModel ==
    (1 :> [startTime |-> <<9, 0>>, endTime |-> <<10, 0>>]) @@
    (2 :> [startTime |-> <<11, 0>>, endTime |-> <<12, 0>>])
TimeSlotIds == {1, 2, 3}

(***************************************************************************)
(* Inputs.                                                                 *)
(***************************************************************************)
\* instants the clock is observed at, on the day the requests start (day 1) and
\* on the day after (within slot 1 and at its end)
Instants ==
    {Day(1) + 8 * MsPerHour, Day(1) + 12 * MsPerHour, Day(1) + 12 * MsPerHour + 1,
     Day(2) + 9 * MsPerHour + 30 * MsPerMinute, Day(2) + 10 * MsPerHour}

\* dates a book request carries: NaN, a day before day 1, the first and the last
\* millisecond of the day after
BookDates == {InvalidDate, Day(0), Day(2), Day(2) + MsPerDay - 1}
Ratings == {5}

(***************************************************************************)
(* Request processes.                                                      *)
(***************************************************************************)
NoBooking ==
    [clientId |-> NoUser, coachId |-> NoUser, workoutId |-> 0, timeSlotId |-> 0,
     date |-> 0, state |-> "none", clientFeedback |-> 0, coachFeedback |-> 0]

Idle ==
    [pc |-> "idle", op |-> "none", userId |-> NoUser, coachId |-> NoUser,
     workoutId |-> 0, timeSlotId |-> 0, date |-> 0, bookingId |-> 0, rating |-> 0,
     snap |-> NoBooking, stale |-> FALSE, err |-> "none", up |-> {}, res |-> <<>>,
     ids |-> <<>>, existing |-> {}, token |-> NoToken]

\* the handler of p ends: the response (err = "ok" is success) is kept until Return
Done(p, e) == [req EXCEPT ![p].pc = "done", ![p].err = e]

\* HTTP status of each outcome (HttpError codes thrown by the services)
HttpStatus(e) ==
    CASE e = "ok" -> 200
      [] e \in {"InvalidDate", "PastDate", "SlotPassed", "AlreadyCancelled", "Completed",
                "Waiting", "LeadTime", "NotEnded", "FeedbackFailed", "SamePassword"} -> 400
      [] e \in {"InvalidToken", "BadCredentials"} -> 401
      [] e = "Forbidden" -> 403
      [] e \in {"CoachNotFound", "WorkoutNotFound", "SlotNotFound", "BookingNotFound",
                "UserNotFound", "LedgerNotFound", "NoTimeSlots", "NoSlotsToday",
                "SlotUnavailable", "NoWorkouts", "NoFreeSlots"} -> 404
      [] e \in {"CoachBooked", "ClientBooked", "Duplicate"} -> 409
      [] OTHER -> 500

\* the coaches have their mappings and specializations, the accounts exist and
\* nobody is logged in, the service is connected and listens
InitServices ==
    /\ WorkoutModel = InitialWorkouts
    /\ WorkoutOption = (1 :> {"a", "b"}) @@ (2 :> {})
    /\ CoachDataModel = [c \in Coaches |-> <<1>>]
    /\ User = [u \in Users |-> [password |-> 1, refreshToken |-> NoToken]]
    /\ issued = {}
    /\ db = [isConnected |-> TRUE, connectionRetries |-> 0, timers |-> 0, pending |-> 0,
             listeners |-> 1, drops |-> 0]
    /\ app = "listening"

Init ==
    /\ now = Day(1) + 8 * MsPerHour
    /\ bookings = <<>>
    /\ feedbacks = <<>>
    /\ req = [p \in Procs |-> Idle]
    /\ catalog = DOMAIN TimeSlotModel
    /\ InitServices

BookingIds == 1..Len(bookings)
FeedbackIds == 1..Len(feedbacks)

\* requests that may still insert a booking
BookingsInFlight == Cardinality({p \in Procs : req[p].op = "book" /\ req[p].pc # "done"})

(***************************************************************************)
(* WorkoutService.bookWorkout                                              *)
(***************************************************************************)
\* parseAndValidateDate: the rejection, or "ok" (the date is returned as given)
parseAndValidateDate(date, t) ==
    IF date = InvalidDate THEN "InvalidDate"
    ELSE IF startOfDay(date) < startOfDay(t) THEN "PastDate"
    ELSE "ok"

isTimeSlotPassedNever(date, startTime, t) == FALSE

\* true when the booking date is today and the slot's start lies before now
isTimeSlotPassed(date, startTime, t) ==
    /\ startOfDay(date) = startOfDay(t)
    /\ t > setHours(t, startTime)

\* the checks of bookWorkout that precede the booking queries, in order
BookValidation(workoutId, coachId, timeSlotId, date, answered, t) ==
    IF parseAndValidateDate(date, t) # "ok" THEN parseAndValidateDate(date, t)
    ELSE IF getCoachData(coachId, answered) = NoUser THEN "CoachNotFound"
    ELSE IF workoutId \notin DOMAIN WorkoutModel \/ WorkoutModel[workoutId].coachId # coachId
        THEN "WorkoutNotFound"
    ELSE IF timeSlotId \notin catalog THEN "SlotNotFound"
    ELSE IF isTimeSlotPassed(date, TimeSlotModel[timeSlotId].startTime, t) THEN "SlotPassed"
    ELSE "ok"

BookValidate(p, clientId, workoutId, coachId, timeSlotId, date, answered) ==
    /\ req[p].pc = "idle"
    /\ Len(bookings) + BookingsInFlight < MaxBookings
    /\ LET e == BookValidation(workoutId, coachId, timeSlotId, date, answered, now)
           r == [Idle EXCEPT !.op = "book", !.userId = clientId, !.workoutId = workoutId,
                             !.coachId = coachId, !.timeSlotId = timeSlotId, !.date = date]
       IN  req' = [req EXCEPT ![p] = IF e = "ok" THEN [r EXCEPT !.pc = "bookCheckCoach"]
                                     ELSE [r EXCEPT !.pc = "done", !.err = e]]
    /\ UNCHANGED <<now, bookings, feedbacks, catalog, mapVars, authVars, dbVars>>

\* the date filter of the two booking queries: { $gte: startOfDay, $lt: endOfDay }
InBookingDay(stored, date) == stored >= startOfDay(date) /\ stored < endOfDay(date)

existingBooking(r) ==
    {b \in BookingIds : /\ bookings[b].coachId = r.coachId
                        /\ bookings[b].timeSlotId = r.timeSlotId
                        /\ InBookingDay(bookings[b].date, r.date)
                        /\ bookings[b].state # "cancelled"}

existingClientBooking(r) ==
    {b \in BookingIds : /\ bookings[b].clientId = r.userId
                        /\ bookings[b].timeSlotId = r.timeSlotId
                        /\ InBookingDay(bookings[b].date, r.date)
                        /\ bookings[b].state # "cancelled"}

BookCheckCoach(p) ==
    /\ req[p].pc = "bookCheckCoach"
    /\ req' = IF existingBooking(req[p]) # {} THEN Done(p, "CoachBooked")
              ELSE [req EXCEPT ![p].pc = "bookCheckClient"]
    /\ UNCHANGED <<now, bookings, feedbacks, catalog, mapVars, authVars, dbVars>>

BookCheckClient(p) ==
    /\ req[p].pc = "bookCheckClient"
    /\ req' = IF existingClientBooking(req[p]) # {} THEN Done(p, "ClientBooked")
              ELSE [req EXCEPT ![p].pc = "bookTxn"]
    /\ UNCHANGED <<now, bookings, feedbacks, catalog, mapVars, authVars, dbVars>>

NewFeedback(from, to) == [from |-> from, to |-> to, history |-> <<>>]

BookWritesOneLedger(r, k) ==
    LET f1 == IF k >= 1 THEN Append(feedbacks, NewFeedback(r.userId, r.coachId)) ELSE feedbacks
        f2 == IF k >= 2 THEN Append(f1, NewFeedback(r.coachId, r.userId)) ELSE f1
        bk == [clientId |-> r.userId, coachId |-> r.coachId, workoutId |-> r.workoutId,
               timeSlotId |-> r.timeSlotId, date |-> r.date, state |-> "scheduled",
               clientFeedback |-> Len(feedbacks) + 1, coachFeedback |-> Len(feedbacks) + 1]
    IN  [feedbacks |-> f2, bookings |-> IF k >= 3 THEN Append(bookings, bk) ELSE bookings]

\* the collections as the transaction of request r sees them after its first k
\* writes: clientFeedback.save, coachFeedback.save, booking.save
BookWrites(r, k) ==
    LET f1 == IF k >= 1 THEN Append(feedbacks, NewFeedback(r.userId, r.coachId)) ELSE feedbacks
        f2 == IF k >= 2 THEN Append(f1, NewFeedback(r.coachId, r.userId)) ELSE f1
        bk == [clientId |-> r.userId, coachId |-> r.coachId, workoutId |-> r.workoutId,
               timeSlotId |-> r.timeSlotId, date |-> r.date, state |-> "scheduled",
               clientFeedback |-> Len(feedbacks) + 1, coachFeedback |-> Len(feedbacks) + 2]
    IN  [feedbacks |-> f2, bookings |-> IF k >= 3 THEN Append(bookings, bk) ELSE bookings]

Committed == [feedbacks |-> feedbacks, bookings |-> bookings]

AbortKeepsWrites(committed, written) == written

\* a transaction that aborts leaves the collections as they were committed
AbortTransaction(committed, written) == committed

BookCommit(p) ==
    /\ req[p].pc = "bookTxn"
    /\ feedbacks' = BookWrites(req[p], 3).feedbacks
    /\ bookings' = BookWrites(req[p], 3).bookings
    /\ req' = [req EXCEPT ![p].pc = "done", ![p].err = "ok",
                          ![p].bookingId = Len(bookings) + 1]
    /\ UNCHANGED <<now, catalog, mapVars, authVars, dbVars>>

\* a write of the transaction throws after k writes went through: withTransaction
\* aborts and bookWorkout answers 500
BookTxnFail(p) ==
    /\ req[p].pc = "bookTxn"
    /\ \E k \in 0..2 :
          LET out == AbortTransaction(Committed, BookWrites(req[p], k))
          IN  /\ feedbacks' = out.feedbacks
              /\ bookings' = out.bookings
    /\ req' = Done(p, "Internal")
    /\ UNCHANGED <<now, catalog, mapVars, authVars, dbVars>>

(***************************************************************************)
(* Transactions of addFeedback.  The writes of an open transaction are     *)
(* applied to the collections when it commits.  A transaction's write to a *)
(* document that another open transaction wrote, or that was written since *)
(* its own first write, fails with a write conflict.                       *)
(***************************************************************************)
LedgerOfSwapped(r) ==
    IF r.userId = r.snap.clientId THEN r.snap.coachFeedback ELSE r.snap.clientFeedback

\* the ledger request r writes to: the booking's clientFeedback or coachFeedback
LedgerOf(r) ==
    IF r.userId = r.snap.clientId THEN r.snap.clientFeedback ELSE r.snap.coachFeedback

\* requests whose open transaction holds an uncommitted write to ledger l
LedgerWriters(l) ==
    {q \in Procs : req[q].pc \in {"fbBooking", "fbCommit"} /\ LedgerOf(req[q]) = l /\ l # 0}

\* requests whose open transaction holds an uncommitted write to booking b
BookingWriters(b) == {q \in Procs : req[q].pc = "fbCommit" /\ req[q].bookingId = b}

\* a committed write to booking b: open transactions that started before it and
\* have not yet written b will conflict on it
MarkStale(rq, p, b) ==
    [q \in Procs |-> IF q # p /\ rq[q].pc = "fbBooking" /\ rq[q].bookingId = b
                     THEN [rq[q] EXCEPT !.stale = TRUE] ELSE rq[q]]

(***************************************************************************)
(* WorkoutService.cancelBooking                                            *)
(***************************************************************************)
CancelFind(p, bookingId, userId) ==
    /\ req[p].pc = "idle"
    /\ LET r == [Idle EXCEPT !.op = "cancel", !.userId = userId, !.bookingId = bookingId]
       IN  req' = [req EXCEPT ![p] =
                      IF bookingId \in BookingIds
                      THEN [r EXCEPT !.pc = "cancelBooking", !.snap = bookings[bookingId]]
                      ELSE [r EXCEPT !.pc = "done", !.err = "BookingNotFound"]]
    /\ UNCHANGED <<now, bookings, feedbacks, catalog, mapVars, authVars, dbVars>>

hoursDiffRoundedUp(bookingDate, t) == (bookingDate - t + MsPerHour - 1) \div MsPerHour

\* Math.floor(timeDiff / (1000 * 60 * 60))
hoursDiff(bookingDate, t) == (bookingDate - t) \div MsPerHour

CancelCheckAnyActor(booking, userId, answered, t) ==
    IF getUserData(userId, answered) = NoUser THEN "UserNotFound"
    ELSE IF booking.state = "cancelled" THEN "AlreadyCancelled"
    ELSE IF booking.state = "completed" THEN "Completed"
    ELSE IF booking.state = "waiting_for_feedback" THEN "Waiting"
    ELSE IF hoursDiff(booking.date, t) < LeadHours THEN "LeadTime"
    ELSE "ok"

CancelCheckRepeatable(booking, userId, answered, t) ==
    IF getUserData(userId, answered) = NoUser THEN "UserNotFound"
    ELSE IF ~(booking.clientId = userId \/ booking.coachId = userId) THEN "Forbidden"
    ELSE IF booking.state = "completed" THEN "Completed"
    ELSE IF booking.state = "waiting_for_feedback" THEN "Waiting"
    ELSE IF booking.state # "cancelled" /\ hoursDiff(booking.date, t) < LeadHours THEN "LeadTime"
    ELSE "ok"

\* the checks of cancelBooking on the booking it read, in order
CancelCheck(booking, userId, answered, t) ==
    IF getUserData(userId, answered) = NoUser THEN "UserNotFound"
    ELSE IF ~(booking.clientId = userId \/ booking.coachId = userId) THEN "Forbidden"
    ELSE IF booking.state = "cancelled" THEN "AlreadyCancelled"
    ELSE IF booking.state = "completed" THEN "Completed"
    ELSE IF booking.state = "waiting_for_feedback" THEN "Waiting"
    ELSE IF hoursDiff(booking.date, t) < LeadHours THEN "LeadTime"
    ELSE "ok"

\* booking.save() of a document whose only modified path is state
SaveState(store, b, state) == [store EXCEPT ![b].state = state]

CancelBooking(p, answered) ==
    /\ req[p].pc = "cancelBooking"
    /\ LET e == CancelCheck(req[p].snap, req[p].userId, answered, now)
           b == req[p].bookingId
       IN  IF e = "ok"
           THEN /\ BookingWriters(b) = {}
                /\ bookings' = SaveState(bookings, b, "cancelled")
                /\ req' = MarkStale(Done(p, "ok"), p, b)
           ELSE /\ req' = Done(p, e)
                /\ UNCHANGED bookings
    /\ UNCHANGED <<now, feedbacks, catalog, mapVars, authVars, dbVars>>

\* booking.save() throws: cancelBooking answers 500
CancelSaveFail(p) ==
    /\ req[p].pc = "cancelBooking"
    /\ CancelCheck(req[p].snap, req[p].userId, TRUE, now) = "ok"
    /\ req' = Done(p, "Internal")
    /\ UNCHANGED <<now, bookings, feedbacks, catalog, mapVars, authVars, dbVars>>

(***************************************************************************)
(* FeedbackService.addFeedback                                             *)
(***************************************************************************)
AddFeedbackFind(p, userId, bookingId, rating) ==
    /\ req[p].pc = "idle"
    /\ LET r == [Idle EXCEPT !.op = "feedback", !.userId = userId,
                             !.bookingId = bookingId, !.rating = rating]
       IN  req' = [req EXCEPT ![p] =
                      IF bookingId \in BookingIds
                      THEN [r EXCEPT !.pc = "fbCheck", !.snap = bookings[bookingId]]
                      ELSE [r EXCEPT !.pc = "done", !.err = "BookingNotFound"]]
    /\ UNCHANGED <<now, bookings, feedbacks, catalog, mapVars, authVars, dbVars>>

FeedbackCheckClientOnly(booking, userId, t) ==
    IF userId # booking.clientId /\ userId # booking.coachId THEN "Forbidden"
    ELSE IF booking.state = "completed" /\ userId = booking.clientId THEN "Completed"
    ELSE IF setHours(booking.date, TimeSlotModel[booking.timeSlotId].endTime) > t
        THEN "NotEnded"
    ELSE "ok"

FeedbackCheckAnyState(booking, userId, t) ==
    IF userId # booking.clientId /\ userId # booking.coachId THEN "Forbidden"
    ELSE IF setHours(booking.date, TimeSlotModel[booking.timeSlotId].endTime) > t
        THEN "NotEnded"
    ELSE "ok"

FeedbackCheckAfterEnd(booking, userId, t) ==
    IF userId # booking.clientId /\ userId # booking.coachId THEN "Forbidden"
    ELSE IF booking.state = "completed" THEN "Completed"
    ELSE IF setHours(booking.date, TimeSlotModel[booking.timeSlotId].endTime) >= t
        THEN "NotEnded"
    ELSE "ok"

\* the checks of addFeedback on the booking it read, in order
FeedbackCheck(booking, userId, t) ==
    IF userId # booking.clientId /\ userId # booking.coachId THEN "Forbidden"
    ELSE IF booking.state = "completed" THEN "Completed"
    ELSE IF setHours(booking.date, TimeSlotModel[booking.timeSlotId].endTime) > t
        THEN "NotEnded"
    ELSE "ok"

AddFeedbackCheck(p) ==
    /\ req[p].pc = "fbCheck"
    /\ LET e == FeedbackCheck(req[p].snap, req[p].userId, now)
       IN  req' = IF e = "ok"
                  THEN [req EXCEPT ![p].pc = "fbLedger"]
                  ELSE Done(p, e)
    /\ UNCHANGED <<now, bookings, feedbacks, catalog, mapVars, authVars, dbVars>>

\* { message, rating, timestamp }: the rating stands for the entry
feedbackEntry(r) == [rating |-> r.rating]

FeedbackWritesReplaceHistory(r, k) ==
    [feedbacks |-> IF k < 1 THEN feedbacks
                   ELSE [feedbacks EXCEPT ![LedgerOf(r)].history = <<feedbackEntry(r)>>],
     bookings |-> IF k < 2 THEN bookings ELSE SaveState(bookings, r.bookingId, "completed")]

FeedbackWritesLedgerOnly(r, k) ==
    [feedbacks |-> IF k < 1 THEN feedbacks
                   ELSE [feedbacks EXCEPT ![LedgerOf(r)].history = Append(@, feedbackEntry(r))],
     bookings |-> bookings]

\* the collections as the transaction of request r sees them after its first k
\* writes: feedbackDoc.save, then bookingDetails.save
FeedbackWrites(r, k) ==
    LET l == LedgerOf(r)
        isClient == r.userId = r.snap.clientId
        created == [from |-> IF isClient THEN r.snap.clientId ELSE r.snap.coachId,
                    to |-> IF isClient THEN r.snap.coachId ELSE r.snap.clientId,
                    history |-> <<feedbackEntry(r)>>]
        f == IF k < 1 THEN feedbacks
             ELSE IF l = 0 THEN Append(feedbacks, created)
             ELSE [feedbacks EXCEPT ![l].history = Append(@, feedbackEntry(r))]
        completed == SaveState(bookings, r.bookingId, "completed")
        b == IF k < 2 THEN bookings
             ELSE IF l # 0 THEN completed
             ELSE IF isClient
                 THEN [completed EXCEPT ![r.bookingId].clientFeedback = Len(feedbacks) + 1]
             ELSE [completed EXCEPT ![r.bookingId].coachFeedback = Len(feedbacks) + 1]
    IN  [feedbacks |-> f, bookings |-> b]

\* first write of the transaction: the ledger is created, or read and appended to
AddFeedbackSaveLedger(p) ==
    /\ req[p].pc = "fbLedger"
    /\ LET l == LedgerOf(req[p])
       IN  req' = IF l # 0 /\ l \notin FeedbackIds THEN Done(p, "LedgerNotFound")
                  ELSE IF LedgerWriters(l) # {} THEN Done(p, "FeedbackFailed")
                  ELSE [req EXCEPT ![p].pc = "fbBooking"]
    /\ UNCHANGED <<now, bookings, feedbacks, catalog, mapVars, authVars, dbVars>>

\* second write of the transaction: bookingDetails.state = COMPLETED
AddFeedbackSaveBooking(p) ==
    /\ req[p].pc = "fbBooking"
    /\ req' = IF req[p].stale \/ BookingWriters(req[p].bookingId) # {}
              THEN Done(p, "FeedbackFailed")
              ELSE [req EXCEPT ![p].pc = "fbCommit"]
    /\ UNCHANGED <<now, bookings, feedbacks, catalog, mapVars, authVars, dbVars>>

AddFeedbackCommit(p) ==
    /\ req[p].pc = "fbCommit"
    /\ feedbacks' = FeedbackWrites(req[p], 2).feedbacks
    /\ bookings' = FeedbackWrites(req[p], 2).bookings
    /\ req' = MarkStale(Done(p, "ok"), p, req[p].bookingId)
    /\ UNCHANGED <<now, catalog, mapVars, authVars, dbVars>>

\* a write or the commit throws: abortTransaction, addFeedback answers 400
AddFeedbackTxnFail(p) ==
    /\ req[p].pc \in {"fbLedger", "fbBooking", "fbCommit"}
    /\ LET k == CASE req[p].pc = "fbLedger" -> 0
                  [] req[p].pc = "fbBooking" -> 1
                  [] OTHER -> 2
           out == AbortTransaction(Committed, FeedbackWrites(req[p], k))
       IN  /\ feedbacks' = out.feedbacks
           /\ bookings' = out.bookings
    /\ req' = Done(p, "FeedbackFailed")
    /\ UNCHANGED <<now, catalog, mapVars, authVars, dbVars>>

(***************************************************************************)
(* WorkoutService.searchWorkoutUsingFilters: the composite availability    *)
(* query.  A filter that is absent is 0 (workout type, time slot), NoUser  *)
(* (coach) or NoDate.                                                      *)
(***************************************************************************)
NoDate == 0 - 2

\* "HH:MM" strings compare as the pairs <<hours, minutes>> do
StartsBefore(s1, s2) ==
    LET a == TimeSlotModel[s1].startTime
        b == TimeSlotModel[s2].startTime
    IN  a[1] < b[1] \/ (a[1] = b[1] /\ a[2] < b[2]) \/ (a = b /\ s1 <= s2)

\* TimeSlotModel.find({}).sort({ startTime: 1 })
RECURSIVE SortByStartTime(_)
SortByStartTime(slots) ==
    IF slots = {} THEN <<>>
    ELSE LET first == CHOOSE s \in slots : \A o \in slots : StartsBefore(s, o)
         IN  <<first>> \o SortByStartTime(slots \ {first})

\* the ids in set ids as a sequence in ascending order (the order of insertion)
RECURSIVE InIdOrder(_)
InIdOrder(ids) ==
    IF ids = {} THEN <<>>
    ELSE LET first == CHOOSE i \in ids : \A o \in ids : i <= o
         IN  <<first>> \o InIdOrder(ids \ {first})

\* the slots kept by the cut-off: all of them unless the date searched is today,
\* and then those that start after now
validTimeSlots(slots, isToday, t) ==
    LET keep(slot) == ~isToday \/ setHours(t, TimeSlotModel[slot].startTime) > t
    IN  SelectSeq(slots, keep)

\* WorkoutModel.find(workoutFilter)
FindWorkouts(workoutId, coachId) ==
    LET match(w) == /\ workoutId # 0 => WorkoutModel[w].workoutType = workoutId
                    /\ coachId # NoUser => WorkoutModel[w].coachId = coachId
    IN  SelectSeq(InIdOrder(DOMAIN WorkoutModel), match)

\* BookingModel.find({ date: { $gte: formattedDate, $lt: formattedDate + 24 h },
\*                     state: { $ne: CANCELLED } })
BookingsOfDay(formattedDate) ==
    {b \in BookingIds : /\ bookings[b].date >= formattedDate
                        /\ bookings[b].date < formattedDate + MsPerDay
                        /\ bookings[b].state # "cancelled"}

\* the valid slots that no booking of the day has
availableAlternativeTimeSlots(valid, formattedDate) ==
    LET free(slot) == \A b \in BookingsOfDay(formattedDate) : bookings[b].timeSlotId # slot
    IN  SelectSeq(valid, free)

SeqContains(sq, e) == \E i \in 1..Len(sq) : sq[i] = e

\* one CoachWorkoutAvailability record of the result
availabilityInfo(w, timeSlotId, free) ==
    LET selected == IF timeSlotId # 0 /\ SeqContains(free, timeSlotId) THEN timeSlotId
                    ELSE free[1]
        other(slot) == slot # selected
    IN  [coachId |-> WorkoutModel[w].coachId, workoutId |-> w, timeSlotId |-> selected,
         alternativeTimeSlots |-> SelectSeq(free, other)]

\* the loop that builds the result from the workouts and their coaches: reading
\* coach._id of a coach that is null throws a TypeError, which leaves the service
\* uncaught and is answered 500
SearchResult(workouts, timeSlotId, free, up) ==
    IF \E i \in 1..Len(workouts) :
           getCoachData(WorkoutModel[workouts[i]].coachId,
                        WorkoutModel[workouts[i]].coachId \in up) = NoUser
    THEN [err |-> "Internal", res |-> <<>>]
    ELSE [err |-> "ok",
          res |-> [i \in 1..Len(workouts) |-> availabilityInfo(workouts[i], timeSlotId, free)]]

SearchSilentWhenPassed(workoutId, coachId, timeSlotId, date, up, t) ==
    LET searchDate == IF date = NoDate THEN t ELSE date
        formattedDate == startOfDay(searchDate)
        valid == validTimeSlots(SortByStartTime(catalog), formattedDate = startOfDay(t), t)
        workouts == FindWorkouts(workoutId, coachId)
        free == availableAlternativeTimeSlots(valid, formattedDate)
    IN  IF date = InvalidDate THEN [err |-> "InvalidDate", res |-> <<>>]
        ELSE IF date # NoDate /\ startOfDay(date) < startOfDay(t)
            THEN [err |-> "PastDate", res |-> <<>>]
        ELSE IF catalog = {} THEN [err |-> "NoTimeSlots", res |-> <<>>]
        ELSE IF Len(valid) = 0 THEN [err |-> "ok", res |-> <<>>]
        ELSE IF timeSlotId # 0 /\ ~SeqContains(valid, timeSlotId)
            THEN [err |-> "SlotUnavailable", res |-> <<>>]
        ELSE IF Len(workouts) = 0 THEN [err |-> "NoWorkouts", res |-> <<>>]
        ELSE IF Len(free) = 0 THEN [err |-> "NoFreeSlots", res |-> <<>>]
        ELSE SearchResult(workouts, timeSlotId, free, up)

\* the outcome of the query at instant t; up: the coaches whose directory lookup
\* answers
searchWorkoutUsingFilters(workoutId, coachId, timeSlotId, date, up, t) ==
    LET searchDate == IF date = NoDate THEN t ELSE date
        formattedDate == startOfDay(searchDate)
        valid == validTimeSlots(SortByStartTime(catalog), formattedDate = startOfDay(t), t)
        workouts == FindWorkouts(workoutId, coachId)
        free == availableAlternativeTimeSlots(valid, formattedDate)
    IN  IF date = InvalidDate THEN [err |-> "InvalidDate", res |-> <<>>]
        ELSE IF date # NoDate /\ startOfDay(date) < startOfDay(t)
            THEN [err |-> "PastDate", res |-> <<>>]
        ELSE IF catalog = {} THEN [err |-> "NoTimeSlots", res |-> <<>>]
        ELSE IF Len(valid) = 0 THEN [err |-> "NoSlotsToday", res |-> <<>>]
        ELSE IF timeSlotId # 0 /\ ~SeqContains(valid, timeSlotId)
            THEN [err |-> "SlotUnavailable", res |-> <<>>]
        ELSE IF Len(workouts) = 0 THEN [err |-> "NoWorkouts", res |-> <<>>]
        ELSE IF Len(free) = 0 THEN [err |-> "NoFreeSlots", res |-> <<>>]
        ELSE SearchResult(workouts, timeSlotId, free, up)

\* GET /available: the whole query is one read of the collections
Search(p, workoutId, coachId, timeSlotId, date, up) ==
    /\ req[p].pc = "idle"
    /\ LET out == searchWorkoutUsingFilters(workoutId, coachId, timeSlotId, date, up, now)
       IN  req' = [req EXCEPT ![p] =
                      [Idle EXCEPT !.pc = "done", !.op = "search", !.workoutId = workoutId,
                                   !.coachId = coachId, !.timeSlotId = timeSlotId,
                                   !.date = date, !.up = up, !.err = out.err,
                                   !.res = out.res]]
    /\ UNCHANGED <<now, bookings, feedbacks, catalog, mapVars, authVars, dbVars>>

(***************************************************************************)
(* CoachService.getCoachAvailableTimeSlots: the slots of the catalog, each *)
(* with the flag isBooked, for one coach and one date.                     *)
(***************************************************************************)
getCoachAvailableTimeSlots(coachId, date, answered) ==
    LET taken == {b \in BookingIds :
                     /\ bookings[b].coachId = coachId
                     /\ bookings[b].date = date
                     /\ bookings[b].state \in {"scheduled", "completed", "waiting_for_feedback"}}
        timeSlots == InIdOrder(catalog)
        isBooked(slot) == \E b \in taken : bookings[b].timeSlotId = slot
    IN  IF date = InvalidDate THEN [err |-> "InvalidDate", res |-> <<>>]
        ELSE IF getCoachData(coachId, answered) = NoUser
            THEN [err |-> "CoachNotFound", res |-> <<>>]
        ELSE IF Len(timeSlots) = 0 THEN [err |-> "NoTimeSlots", res |-> <<>>]
        ELSE [err |-> "ok",
              res |-> [i \in 1..Len(timeSlots) |->
                          [id |-> timeSlots[i], isBooked |-> isBooked(timeSlots[i])]]]

\* GET /:id/time-slots
CoachTimeSlots(p, coachId, date, answered) ==
    /\ req[p].pc = "idle"
    /\ LET out == getCoachAvailableTimeSlots(coachId, date, answered)
       IN  req' = [req EXCEPT ![p] =
                      [Idle EXCEPT !.pc = "done", !.op = "slots", !.coachId = coachId,
                                   !.date = date, !.err = out.err, !.res = out.res,
                                   !.up = IF answered THEN Coaches ELSE {}]]
    /\ UNCHANGED <<now, bookings, feedbacks, catalog, mapVars, authVars, dbVars>>

(***************************************************************************)
(* FeedbackService.getCoachFeedbackStats: the number of ledgers addressed   *)
(* to the coach, and the distribution and the average of the ratings read   *)
(* from them.  The average is kept in tenths, as toFixed(1) rounds it.      *)
(***************************************************************************)
\* fb.history[0].rating
latestRating(k) == feedbacks[k].history[1].rating

\* totalRating += latestRating, over the ledgers given
RECURSIVE totalRating(_)
totalRating(ledgers) ==
    IF ledgers = {} THEN 0
    ELSE LET k == CHOOSE x \in ledgers : TRUE
         IN  latestRating(k) + totalRating(ledgers \ {k})

getCoachFeedbackStats(coachId) ==
    LET feedback == {k \in FeedbackIds : feedbacks[k].to = coachId}
        rated == {k \in feedback : Len(feedbacks[k].history) > 0}
        ratingCount == Cardinality(rated)
    IN  [averageRating |-> IF ratingCount > 0
                           THEN (20 * totalRating(rated) + ratingCount) \div (2 * ratingCount)
                           ELSE 0,
         totalReviews |-> Cardinality(feedback),
         ratingDistribution |->
             [r \in 1..5 |-> Cardinality({k \in rated : latestRating(k) = r})]]

CoachStats(p, coachId) ==
    /\ req[p].pc = "idle"
    /\ req' = [req EXCEPT ![p] =
                  [Idle EXCEPT !.pc = "done", !.op = "stats", !.coachId = coachId,
                               !.err = "ok", !.res = <<getCoachFeedbackStats(coachId)>>]]
    /\ UNCHANGED <<now, bookings, feedbacks, catalog, mapVars, authVars, dbVars>>

(***************************************************************************)
(* WorkoutService.createMappings (POST /map-to-coach, and the first call of *)
(* the coach profile update).  One transaction, run by withTransaction,     *)
(* which runs the callback again when the transaction meets a write         *)
(* conflict: find the coach's mappings among the ids, insert a mapping for  *)
(* every id of the list that was not found, add the coach to coachesId of   *)
(* the workout option of each.                                              *)
(***************************************************************************)
Elems(s) == {s[i] : i \in 1..Len(s)}

\* the mappings of coach c for workout type t
MappingsOf(store, c, t) ==
    {w \in DOMAIN store : store[w].coachId = c /\ store[w].workoutType = t}

\* the mappings requests in flight may still insert
MappingsInFlight ==
    LET n(p) == IF req[p].op \in {"map", "profile"} /\ req[p].pc \in {"mapFind", "mapWrite", "mapCommit"}
                THEN Len(req[p].ids) ELSE 0
    IN  n("r1") + n("r2")

\* WorkoutModel.find({ coachId, workoutType: { $in: workoutIds } })
existingWorkoutIds(coachId, ids) ==
    {t \in Elems(ids) : MappingsOf(WorkoutModel, coachId, t) # {}}

\* workoutIds.filter(id => !existingWorkoutIds.includes(id))
newWorkoutIds(ids, existing) == SelectSeq(ids, LAMBDA t : t \notin existing)

\* a new _id: the least id no document of the collection has
NewId(store) ==
    CHOOSE w \in 1..(Cardinality(DOMAIN store) + 1) :
        /\ w \notin DOMAIN store
        /\ \A v \in 1..(w - 1) : v \in DOMAIN store

\* WorkoutModel.insertMany(data): one document for every element of the list
RECURSIVE insertMany(_, _, _)
insertMany(store, coachId, types) ==
    IF Len(types) = 0 THEN store
    ELSE LET w == NewId(store)
             doc == [coachId |-> coachId, workoutType |-> Head(types)]
             added == [v \in DOMAIN store \cup {w} |-> IF v = w THEN doc ELSE store[v]]
         IN  insertMany(added, coachId, Tail(types))

\* the workout options the transaction of r changes: $addToSet changes a
\* document only when the coach is not in its coachesId yet
OptionWrites(r) ==
    {t \in Elems(newWorkoutIds(r.ids, r.existing)) : r.coachId \notin WorkoutOption[t]}

\* requests whose open transaction holds an uncommitted write to option t
OptionWriters(t) == {q \in Procs : req[q].pc = "mapCommit" /\ t \in OptionWrites(req[q])}

\* POST /map-to-coach
MapStart(p, coachId, ids) ==
    /\ req[p].pc = "idle"
    /\ Cardinality(DOMAIN WorkoutModel) + MappingsInFlight + Len(ids) <= MaxWorkouts
    /\ req' = [req EXCEPT ![p] = [Idle EXCEPT !.pc = "mapFind", !.op = "map",
                                               !.coachId = coachId, !.ids = ids]]
    /\ UNCHANGED <<now, gymVars, mapVars, authVars, dbVars>>

\* the callback starts: the transaction reads the existing mappings; with
\* nothing new to insert it returns and the empty transaction commits
MapFind(p) ==
    /\ req[p].pc = "mapFind"
    /\ LET existing == existingWorkoutIds(req[p].coachId, req[p].ids)
           r == [req[p] EXCEPT !.existing = existing, !.stale = FALSE]
       IN  req' = [req EXCEPT ![p] =
                      IF Len(newWorkoutIds(r.ids, existing)) > 0
                      THEN [r EXCEPT !.pc = "mapWrite"]
                      ELSE IF r.op = "profile" THEN [r EXCEPT !.pc = "profUpdate"]
                      ELSE [r EXCEPT !.pc = "done", !.err = "ok"]]
    /\ UNCHANGED <<now, gymVars, mapVars, authVars, dbVars>>

\* insertMany and the updates of the workout options: an option written since
\* the transaction's snapshot, or held by another open transaction, is a write
\* conflict, and withTransaction runs the callback again
MapWrite(p) ==
    /\ req[p].pc = "mapWrite"
    /\ LET touched == Elems(newWorkoutIds(req[p].ids, req[p].existing))
           conflict == req[p].stale \/ \E t \in touched : OptionWriters(t) \ {p} # {}
       IN  req' = [req EXCEPT ![p].pc = IF conflict THEN "mapFind" ELSE "mapCommit"]
    /\ UNCHANGED <<now, gymVars, mapVars, authVars, dbVars>>

\* commitTransaction: the inserted mappings and the changed options show
MapCommit(p) ==
    /\ req[p].pc = "mapCommit"
    /\ LET r == req[p]
           new == newWorkoutIds(r.ids, r.existing)
           written == OptionWrites(r)
           conflicts(q) == /\ q # p
                       /\ req[q].pc = "mapWrite"
                       /\ written \cap Elems(newWorkoutIds(req[q].ids, req[q].existing)) # {}
       IN  /\ WorkoutModel' = insertMany(WorkoutModel, r.coachId, new)
           /\ WorkoutOption' = [t \in DOMAIN WorkoutOption |->
                                   IF t \in Elems(new) THEN WorkoutOption[t] \cup {r.coachId}
                                   ELSE WorkoutOption[t]]
           /\ req' = [q \in Procs |->
                         IF q = p
                         THEN IF r.op = "profile" THEN [r EXCEPT !.pc = "profUpdate"]
                              ELSE [r EXCEPT !.pc = "done", !.err = "ok"]
                         ELSE IF conflicts(q) THEN [req[q] EXCEPT !.stale = TRUE]
                         ELSE req[q]]
    /\ UNCHANGED <<now, gymVars, CoachDataModel, authVars, dbVars>>

(***************************************************************************)
(* ProfileController.updateCoachProfile and ProfileUpdateService            *)
(* .updateCoachProfile: the mappings of the new specialization list are     *)
(* created first, through the call above; then, in one transaction, the     *)
(* mappings of the removed specializations are deleted and the list is      *)
(* stored.                                                                  *)
(***************************************************************************)
\* PUT of the coach profile with the specialization list ids
ProfileStart(p, coachId, ids) ==
    /\ req[p].pc = "idle"
    /\ Cardinality(DOMAIN WorkoutModel) + MappingsInFlight + Len(ids) <= MaxWorkouts
    /\ req' = [req EXCEPT ![p] =
                  [Idle EXCEPT !.pc = IF Len(ids) > 0 THEN "mapFind" ELSE "profUpdate",
                               !.op = "profile", !.coachId = coachId, !.ids = ids]]
    /\ UNCHANGED <<now, gymVars, mapVars, authVars, dbVars>>

\* existingSpecializations.filter(id => !newSpecializations.includes(id)), and
\* nothing when the list given is empty: the block is entered only
\* if (updateData.specialization?.length)
removedSpecializations(existingSpecializations, ids) ==
    IF Len(ids) > 0 THEN Elems(existingSpecializations) \ Elems(ids) ELSE {}

\* the transaction of ProfileUpdateService.updateCoachProfile
ProfUpdate(p) ==
    /\ req[p].pc = "profUpdate"
    /\ LET c == req[p].coachId
           removed == removedSpecializations(CoachDataModel[c], req[p].ids)
           kept == {w \in DOMAIN WorkoutModel :
                       ~(WorkoutModel[w].coachId = c /\ WorkoutModel[w].workoutType \in removed)}
       IN  /\ WorkoutModel' = [w \in kept |-> WorkoutModel[w]]
           /\ CoachDataModel' = IF Len(req[p].ids) > 0
                                THEN [CoachDataModel EXCEPT ![c] = req[p].ids]
                                ELSE CoachDataModel
    /\ req' = Done(p, "ok")
    /\ UNCHANGED <<now, gymVars, WorkoutOption, authVars, dbVars>>

(***************************************************************************)
(* AuthService: login, refreshToken and logout, and                         *)
(* PasswordController.changePassword.  A token is jwt.sign of the user, the *)
(* second it is issued in and its expiry, under one of two secrets: two     *)
(* tokens signed for one user in one second are the same string.            *)
(***************************************************************************)
AccessExpiresIn == 60 * 60
RefreshExpiresIn == 7 * 24 * 60 * 60

\* jwt.sign(payload, secret, { expiresIn }) at instant t
jwtSign(userId, secret, t) == [userId |-> userId, iat |-> t \div 1000, secret |-> secret]

\* jwt.verify(token, JWT_REFRESH_SECRET) does not throw: the signature is of the
\* refresh secret and the token has not expired
jwtVerifyRefresh(token, t) ==
    /\ token.secret = "refresh"
    /\ t \div 1000 < token.iat + RefreshExpiresIn

generateTokens(userId, t) ==
    [accessToken |-> jwtSign(userId, "access", t),
     refreshToken |-> jwtSign(userId, "refresh", t)]

\* the tokens handed to clients so far, with those of this response
Issue(tokens) == issued \cup {tokens.accessToken, tokens.refreshToken}

\* POST /login
Login(p, userId, password) ==
    /\ req[p].pc = "idle"
    /\ LET r == [Idle EXCEPT !.pc = "done", !.op = "login", !.userId = userId]
           tokens == generateTokens(userId, now)
       IN  IF userId \notin Users \/ User[userId].password # password
           THEN /\ req' = [req EXCEPT ![p] = [r EXCEPT !.err = "BadCredentials"]]
                /\ UNCHANGED authVars
           ELSE /\ req' = [req EXCEPT ![p] = [r EXCEPT !.err = "ok", !.res = <<tokens>>]]
                /\ User' = [User EXCEPT ![userId].refreshToken = tokens.refreshToken]
                /\ issued' = Issue(tokens)
    /\ UNCHANGED <<now, gymVars, mapVars, dbVars>>

\* refreshToken up to the lookup: jwt.verify throws a JsonWebTokenError, which
\* the catch turns into 401; the HttpError(401) thrown when no user has the
\* token is not a JsonWebTokenError, and the catch turns it into
\* HttpError(500, 'Failed to refresh token')
refreshTokenFind(token, t) ==
    IF ~jwtVerifyRefresh(token, t) THEN "InvalidToken"
    ELSE IF User[token.userId].refreshToken # token THEN "RefreshFailed"
    ELSE "ok"

\* POST /refresh-token with a token a client was given: verify,
\* User.findOne({ _id, refreshToken: token })
RefreshFind(p, token) ==
    /\ req[p].pc = "idle"
    /\ token \in issued
    /\ LET r == [Idle EXCEPT !.op = "refresh", !.userId = token.userId, !.token = token]
           e == refreshTokenFind(token, now)
       IN  req' = [req EXCEPT ![p] = IF e = "ok" THEN [r EXCEPT !.pc = "refreshSave"]
                                     ELSE [r EXCEPT !.pc = "done", !.err = e]]
    /\ UNCHANGED <<now, gymVars, mapVars, authVars, dbVars>>

\* generateTokens, user.refreshToken = tokens.refreshToken, user.save()
RefreshSave(p) ==
    /\ req[p].pc = "refreshSave"
    /\ LET tokens == generateTokens(req[p].userId, now)
       IN  /\ User' = [User EXCEPT ![req[p].userId].refreshToken = tokens.refreshToken]
           /\ issued' = Issue(tokens)
           /\ req' = [req EXCEPT ![p].pc = "done", ![p].err = "ok", ![p].res = <<tokens>>]
    /\ UNCHANGED <<now, gymVars, mapVars, dbVars>>

\* POST /logout: User.findByIdAndUpdate(userId, { refreshToken: null })
Logout(p, userId) ==
    /\ req[p].pc = "idle"
    /\ User' = [User EXCEPT ![userId].refreshToken = NoToken]
    /\ req' = [req EXCEPT ![p] = [Idle EXCEPT !.pc = "done", !.op = "logout",
                                               !.userId = userId, !.err = "ok"]]
    /\ UNCHANGED <<now, gymVars, mapVars, issued, dbVars>>

\* PasswordController.changePassword, one transaction
ChangePassword(p, userId, currentPassword, newPassword) ==
    /\ req[p].pc = "idle"
    /\ LET r == [Idle EXCEPT !.pc = "done", !.op = "password", !.userId = userId]
           e == IF currentPassword = newPassword THEN "SamePassword"
                ELSE IF User[userId].password # currentPassword THEN "BadCredentials"
                ELSE "ok"
       IN  /\ req' = [req EXCEPT ![p] = [r EXCEPT !.err = e]]
           /\ User' = IF e = "ok"
                      THEN [User EXCEPT ![userId] =
                               [password |-> newPassword, refreshToken |-> NoToken]]
                      ELSE User
    /\ UNCHANGED <<now, gymVars, mapVars, issued, dbVars>>

(***************************************************************************)
(* DatabaseService and App.start.  db holds isConnected and                 *)
(* connectionRetries, the retry timers set and not yet fired (timers), the  *)
(* calls of connect() made in the background that await mongoose.connect    *)
(* (pending), how many times the connection listeners were registered       *)
(* (listeners), and the connection losses so far (drops).  app is the       *)
(* position of App.start: init, connecting (awaiting connect()), listening, *)
(* or exited (process.exit(1)).                                             *)
(***************************************************************************)
maxRetries == 5

\* connect(), the try block after mongoose.connect resolved
connectResolved(d) ==
    [d EXCEPT !.isConnected = TRUE, !.connectionRetries = 0, !.listeners = @ + 1]

\* connect(), the catch block: a retry is scheduled and the call returns, or
\* the error is thrown when maxRetries retries were made
connectRejected(d) ==
    IF d.connectionRetries < maxRetries
    THEN [thrown |-> FALSE,
          db |-> [d EXCEPT !.connectionRetries = @ + 1, !.timers = @ + 1]]
    ELSE [thrown |-> TRUE, db |-> d]

\* n calls of attemptReconnect(), each a retry counted and a connect() begun,
\* while retries are left
RECURSIVE attemptReconnect(_, _)
attemptReconnect(d, n) ==
    IF n = 0 \/ d.connectionRetries >= maxRetries THEN d
    ELSE attemptReconnect([d EXCEPT !.connectionRetries = @ + 1, !.pending = @ + 1], n - 1)

\* App.start calls connect()
Start ==
    /\ app = "init"
    /\ app' = IF db.isConnected THEN "listening" ELSE "connecting"
    /\ UNCHANGED <<now, gymVars, req, mapVars, authVars, db>>

\* mongoose.connect resolves; connect() returns and App.start listens
StartConnectOk ==
    /\ app = "connecting"
    /\ db' = connectResolved(db)
    /\ app' = "listening"
    /\ UNCHANGED <<now, gymVars, req, mapVars, authVars>>

\* mongoose.connect rejects: connect() returns after scheduling a retry and
\* App.start goes on to listen, or connect() throws and App.start exits
StartConnectFail ==
    /\ app = "connecting"
    /\ db' = connectRejected(db).db
    /\ app' = IF connectRejected(db).thrown THEN "exited" ELSE "listening"
    /\ UNCHANGED <<now, gymVars, req, mapVars, authVars>>

\* setTimeout(() => void this.connect(), retryInterval) fires
TimerFires ==
    /\ app # "exited"
    /\ db.timers > 0
    /\ db' = IF db.isConnected THEN [db EXCEPT !.timers = @ - 1]
             ELSE [db EXCEPT !.timers = @ - 1, !.pending = @ + 1]
    /\ UNCHANGED <<now, gymVars, req, mapVars, authVars, app>>

\* a connect() made in the background: mongoose.connect resolves
ConnectOk ==
    /\ app # "exited"
    /\ db.pending > 0
    /\ db' = connectResolved([db EXCEPT !.pending = @ - 1])
    /\ UNCHANGED <<now, gymVars, req, mapVars, authVars, app>>

\* a connect() made in the background: mongoose.connect rejects; when the error
\* is thrown nobody awaits it, and the unhandledRejection handler exits
ConnectFail ==
    /\ app # "exited"
    /\ db.pending > 0
    /\ LET out == connectRejected([db EXCEPT !.pending = @ - 1])
       IN  /\ db' = out.db
           /\ app' = IF out.thrown THEN "exited" ELSE app
    /\ UNCHANGED <<now, gymVars, req, mapVars, authVars>>

\* the connection is lost: every registered 'disconnected' listener clears
\* isConnected and calls attemptReconnect()
Disconnected ==
    /\ app # "exited"
    /\ db.isConnected
    /\ db.drops < MaxDrops
    /\ db' = attemptReconnect([db EXCEPT !.isConnected = FALSE, !.drops = @ + 1],
                              db.listeners)
    /\ UNCHANGED <<now, gymVars, req, mapVars, authVars, app>>

\* the health check of every 30 s finds the connection down
HealthCheck ==
    /\ app # "exited"
    /\ db.listeners > 0
    /\ ~db.isConnected \/ db.drops < MaxDrops
    /\ db' = attemptReconnect([db EXCEPT !.isConnected = FALSE,
                                         !.drops = IF db.isConnected THEN @ + 1 ELSE @], 1)
    /\ UNCHANGED <<now, gymVars, req, mapVars, authVars, app>>

(***************************************************************************)
(* A directory that never answers.  getCoachData and getUserData await     *)
(* axios.get, which is called without a timeout: while no response and no  *)
(* error comes, the handler stays at the await.                            *)
(***************************************************************************)
\* the query reaches its coach lookups: no earlier check has thrown and there
\* is a workout to look the coach of up
SearchLooksUp(workoutId, coachId, timeSlotId, date, t) ==
    LET valid == validTimeSlots(SortByStartTime(catalog),
                                startOfDay(IF date = NoDate THEN t ELSE date) = startOfDay(t), t)
    IN  /\ date # InvalidDate
        /\ date = NoDate \/ startOfDay(date) >= startOfDay(t)
        /\ Len(valid) > 0
        /\ timeSlotId # 0 => SeqContains(valid, timeSlotId)
        /\ Len(FindWorkouts(workoutId, coachId)) > 0

\* bookWorkout at getCoachData (after the date is validated), cancelBooking at
\* getUserData (after the booking is found), the two queries at getCoachData
DirectoryNeverAnswers(p, requests, searches) ==
    /\ \/ /\ req[p].pc = "idle"
          /\ Len(bookings) + BookingsInFlight < MaxBookings
          /\ \E q \in requests :
                /\ parseAndValidateDate(q[5], now) = "ok"
                /\ req' = [req EXCEPT ![p] =
                              [Idle EXCEPT !.pc = "awaitDirectory", !.op = "book",
                                           !.userId = q[1], !.workoutId = q[2],
                                           !.coachId = q[3], !.timeSlotId = q[4],
                                           !.date = q[5]]]
       \/ /\ req[p].pc = "cancelBooking"
          /\ req' = [req EXCEPT ![p].pc = "awaitDirectory"]
       \/ /\ req[p].pc = "idle"
          /\ \E q \in searches :
                /\ SearchLooksUp(q[1], q[2], q[3], q[4], now)
                /\ req' = [req EXCEPT ![p] =
                              [Idle EXCEPT !.pc = "awaitDirectory", !.op = "search",
                                           !.workoutId = q[1], !.coachId = q[2],
                                           !.timeSlotId = q[3], !.date = q[4]]]
       \/ /\ req[p].pc = "idle"
          /\ \E c \in Coaches, d \in {Day(1), Day(2)} :
                req' = [req EXCEPT ![p] =
                           [Idle EXCEPT !.pc = "awaitDirectory", !.op = "slots",
                                        !.coachId = c, !.date = d]]
    /\ UNCHANGED <<now, bookings, feedbacks, catalog, mapVars, authVars, dbVars>>

(***************************************************************************)
(* Environment.                                                            *)
(***************************************************************************)
\* time passes, up to one of the instants offered
Tick(instants) ==
    /\ \E t \in instants : t > now /\ now' = t
    /\ UNCHANGED <<bookings, feedbacks, req, catalog, mapVars, authVars, dbVars>>

\* the response is sent; the handler slot is free again
Return(p) ==
    /\ req[p].pc = "done"
    /\ req' = [req EXCEPT ![p] = Idle]
    /\ UNCHANGED <<now, bookings, feedbacks, catalog, mapVars, authVars, dbVars>>

(***************************************************************************)
(* Specifications.                                                         *)
(***************************************************************************)
\* The book requests offered: every combination of client, workout, coach, slot
\* and date.  Clients are interchangeable and so are coaches (with their
\* workouts), so the first booking of a run is asked by x of a.
BookRequests ==
    IF Len(bookings) + BookingsInFlight = 0
    THEN {"x"} \X WorkoutIds \X {"a"} \X TimeSlotIds \X BookDates
    ELSE Clients \X WorkoutIds \X Coaches \X TimeSlotIds \X BookDates

\* the steps of handler p; answers: the outcomes a directory lookup may have;
\* requests: the book requests offered; actors: who asks to cancel or give feedback
Handler(p, answers, requests, actors) ==
    \/ \E q \in requests, a \in answers : BookValidate(p, q[1], q[2], q[3], q[4], q[5], a)
    \/ BookCheckCoach(p)
    \/ BookCheckClient(p)
    \/ BookCommit(p)
    \/ \E b \in 1..MaxBookings, u \in actors : CancelFind(p, b, u)
    \/ \E a \in answers : CancelBooking(p, a)
    \/ \E u \in actors, b \in 1..MaxBookings, r \in Ratings : AddFeedbackFind(p, u, b, r)
    \/ AddFeedbackCheck(p)
    \/ AddFeedbackSaveLedger(p)
    \/ AddFeedbackSaveBooking(p)
    \/ AddFeedbackCommit(p)
    \/ Return(p)

Failure(p) ==
    \/ BookTxnFail(p)
    \/ CancelSaveFail(p)
    \/ AddFeedbackTxnFail(p)

\* one request at a time, a directory that answers, a database that does not fail
Next ==
    \/ Tick(Instants)
    \/ Handler("r1", {TRUE}, BookRequests, Users)

Spec == Init /\ [][Next]_vars

\* book requests of the concurrent runs: coach a, slot 1, 23:00 of the day after
ConcRequests ==
    (IF Len(bookings) + BookingsInFlight = 0 THEN {"x"} ELSE Clients)
        \X {1} \X {"a"} \X {1} \X {Day(2) + 23 * MsPerHour}

ConcActors == {"x", "a"}
ConcInstants == {Day(2) + 10 * MsPerHour}

\* requests served concurrently, lookups and database writes that may fail
NextConc ==
    \/ Tick(ConcInstants)
    \/ \E p \in Procs : Handler(p, BOOLEAN, ConcRequests, ConcActors) \/ Failure(p)

SpecConc == Init /\ [][NextConc]_vars

\* ratings told apart: feedback requests of both parties served concurrently,
\* with transactions that may fail
FbRatings == {4, 5}
FbActors == {"x", "a"}

NextFb ==
    \/ Tick(ConcInstants)
    \/ \E p \in Procs :
          \/ \E q \in ConcRequests : BookValidate(p, q[1], q[2], q[3], q[4], q[5], TRUE)
          \/ BookCheckCoach(p)
          \/ BookCheckClient(p)
          \/ BookCommit(p)
          \/ \E u \in FbActors, b \in 1..MaxBookings, r \in FbRatings :
                 AddFeedbackFind(p, u, b, r)
          \/ AddFeedbackCheck(p)
          \/ AddFeedbackSaveLedger(p)
          \/ AddFeedbackSaveBooking(p)
          \/ AddFeedbackCommit(p)
          \/ AddFeedbackTxnFail(p)
          \/ \E c \in Coaches : CoachStats(p, c)
          \/ Return(p)

SpecFb == Init /\ [][NextFb]_vars

\* the specialization lists and the id lists sent: empty, one type, two types, one
\* type twice
IdLists == {<<>>, <<1>>, <<2>>, <<1, 2>>, <<2, 2>>}

\* the coach whose mappings and profile are changed
MapCoaches == {"a"}

\* mapping requests and coach profile updates, served concurrently
NextMap ==
    \E p \in Procs :
        \/ \E c \in MapCoaches, ids \in IdLists : MapStart(p, c, ids)
        \/ MapFind(p)
        \/ MapWrite(p)
        \/ MapCommit(p)
        \/ \E c \in MapCoaches, ids \in IdLists : ProfileStart(p, c, ids)
        \/ ProfUpdate(p)
        \/ Return(p)

SpecMap == Init /\ [][NextMap]_vars

\* the account that logs in, its passwords, and the instants of the requests:
\* within the second of the start, two seconds later, and past the lifetime of
\* a refresh token
AuthUsers == {"x"}
Passwords == {1, 2}
AuthInstants ==
    {Day(1) + 8 * MsPerHour + 500, Day(1) + 8 * MsPerHour + 2000, Day(9) + 9 * MsPerHour}

\* the tokens the service signs at these instants
SignedTokens ==
    {jwtSign(u, secret, t) : u \in AuthUsers, secret \in {"access", "refresh"},
                             t \in AuthInstants \cup {Day(1) + 8 * MsPerHour}}

NextAuth ==
    \/ Tick(AuthInstants)
    \/ \E p \in Procs :
          \/ \E u \in AuthUsers, pw \in Passwords : Login(p, u, pw)
          \/ \E token \in SignedTokens : RefreshFind(p, token)
          \/ RefreshSave(p)
          \/ \E u \in AuthUsers : Logout(p, u)
          \/ \E u \in AuthUsers, cur \in Passwords, new \in Passwords :
                 ChangePassword(p, u, cur, new)
          \/ Return(p)

SpecAuth == Init /\ [][NextAuth]_vars

\* the process starts: nothing is connected yet, App.start has not run
InitDb ==
    /\ now = Day(1) + 8 * MsPerHour
    /\ bookings = <<>>
    /\ feedbacks = <<>>
    /\ req = [p \in Procs |-> Idle]
    /\ catalog = DOMAIN TimeSlotModel
    /\ WorkoutModel = InitialWorkouts
    /\ WorkoutOption = (1 :> {"a", "b"}) @@ (2 :> {})
    /\ CoachDataModel = [c \in Coaches |-> <<1>>]
    /\ User = [u \in Users |-> [password |-> 1, refreshToken |-> NoToken]]
    /\ issued = {}
    /\ db = [isConnected |-> FALSE, connectionRetries |-> 0, timers |-> 0, pending |-> 0,
             listeners |-> 0, drops |-> 0]
    /\ app = "init"

NextDb ==
    \/ Start
    \/ StartConnectOk
    \/ StartConnectFail
    \/ TimerFires
    \/ ConnectOk
    \/ ConnectFail
    \/ Disconnected
    \/ HealthCheck

SpecDb == InitDb /\ [][NextDb]_vars

\* The availability runs: handler r1 books, cancels and takes feedback while
\* handler r2 asks the two availability queries; the TimeSlot collection may be
\* empty.
InitAvail ==
    /\ now = Day(1) + 8 * MsPerHour
    /\ bookings = <<>>
    /\ feedbacks = <<>>
    /\ req = [p \in Procs |-> Idle]
    /\ catalog \in {{}, DOMAIN TimeSlotModel}
    /\ InitServices

AvailInstants == {Day(1) + 12 * MsPerHour, Day(2) + 10 * MsPerHour}

\* book requests of the availability runs: each coach with the coach's workout,
\* slot 1, the day after the first request
AvailRequests ==
    {q \in Clients \X WorkoutIds \X Coaches \X {1} \X {Day(2)} :
        /\ WorkoutModel[q[2]].coachId = q[3]
        /\ Len(bookings) + BookingsInFlight = 0 => q[1] = "x"}

\* the queries asked: for workout type 1, of any coach or of a, for any slot or
\* slot 1, for today (no date) or tomorrow
SearchDates == {NoDate, Day(2)}

\* the dates the slot listing is asked for: today, tomorrow at midnight,
\* tomorrow with a time of day
SlotDates == {Day(1), Day(2), Day(2) + 9 * MsPerHour}

Queries(p) ==
    \/ \E c \in {NoUser, "a"}, s \in {0, 1}, d \in SearchDates, up \in SUBSET Coaches :
          Search(p, 1, c, s, d, up)
    \/ \E c \in Coaches, d \in SlotDates, a \in BOOLEAN : CoachTimeSlots(p, c, d, a)
    \/ Return(p)

AvailActors == {"x", "a"}

NextAvail ==
    \/ Tick(AvailInstants)
    \/ Handler("r1", {TRUE}, AvailRequests, AvailActors)
    \/ Queries("r2")

SpecAvail == InitAvail /\ [][NextAvail]_vars

\* Spec, of a service that never stops serving
SpecLive == Spec /\ WF_vars(Next)

\* The steps a handler takes once its request is accepted: the continuations
\* the event loop runs when the awaited database call resolves.
Continue(p) ==
    \/ BookCheckCoach(p)
    \/ BookCheckClient(p)
    \/ BookCommit(p)
    \/ \E a \in BOOLEAN : CancelBooking(p, a)
    \/ AddFeedbackCheck(p)
    \/ AddFeedbackSaveLedger(p)
    \/ AddFeedbackSaveBooking(p)
    \/ AddFeedbackCommit(p)

DirSearches == {1} \X {NoUser} \X {0} \X SearchDates

\* handler r1 with a directory whose lookups answer, fail or never return, while
\* handler r2 goes on serving slot listings whose lookup answers
NextDir ==
    \/ Tick(AvailInstants)
    \/ Handler("r1", BOOLEAN, AvailRequests, AvailActors)
    \/ Queries("r1")
    \/ DirectoryNeverAnswers("r1", AvailRequests, DirSearches)
    \/ CoachTimeSlots("r2", "a", Day(2), TRUE)
    \/ Return("r2")

\* the service keeps running and every continuation that can run does
SpecDir == Init /\ [][NextDir]_vars /\ WF_vars(NextDir) /\ WF_vars(Continue("r1"))

(***************************************************************************)
(* Properties.                                                             *)
(***************************************************************************)
SameDay(d1, d2) == startOfDay(d1) = startOfDay(d2)
Active(b) == bookings[b].state # "cancelled"
IsParty(b, u) == u = bookings[b].clientId \/ u = bookings[b].coachId
Finished(p, op) == req[p].pc = "done" /\ req[p].op = op

\* the instant the slot of booking b ends on the booking's day
SlotEnd(b) ==
    startOfDay(bookings[b].date)
        + TimeSlotModel[bookings[b].timeSlotId].endTime[1] * MsPerHour
        + TimeSlotModel[bookings[b].timeSlotId].endTime[2] * MsPerMinute

ClientLedger(b) == feedbacks[bookings[b].clientFeedback]
CoachLedger(b) == feedbacks[bookings[b].coachFeedback]

\* C1: in every reachable state no two bookings that are not cancelled share a
\* coach, a time slot and a calendar day, and no two share a client, a time slot
\* and a calendar day.
C1_NoDoubleBooking ==
    \A b1 \in BookingIds, b2 \in BookingIds :
        ( /\ b1 # b2
          /\ Active(b1)
          /\ Active(b2)
          /\ bookings[b1].timeSlotId = bookings[b2].timeSlotId
          /\ SameDay(bookings[b1].date, bookings[b2].date) )
        => /\ bookings[b1].coachId # bookings[b2].coachId
           /\ bookings[b1].clientId # bookings[b2].clientId

\* C2: two book requests of different clients for the same coach, slot and day
\* that are served concurrently do not both create a booking.
C2_ConcurrentBookOneWins ==
    \A p \in Procs, q \in Procs :
        ( /\ p # q
          /\ Finished(p, "book")
          /\ Finished(q, "book")
          /\ req[p].userId # req[q].userId
          /\ req[p].coachId = req[q].coachId
          /\ req[p].timeSlotId = req[q].timeSlotId
          /\ SameDay(req[p].date, req[q].date)
          /\ req[p].err = "ok" )
        => \/ req[q].err # "ok"
           \/ ~Active(req[p].bookingId)
           \/ ~Active(req[q].bookingId)

\* booking b stands in the way of book request r: it is not cancelled and has
\* r's slot and calendar day, with r's coach or r's client
Clashes(b, r) ==
    /\ Active(b)
    /\ bookings[b].timeSlotId = r.timeSlotId
    /\ SameDay(bookings[b].date, r.date)
    /\ bookings[b].coachId = r.coachId \/ bookings[b].clientId = r.userId

\* C3: a book request that passed validation while a booking of the same coach
\* (or of the same client) for that slot and day stands ends with a Conflict
\* (409), and creates no booking and no ledger and changes no booking.
C3_LaterBookConflicts ==
    [][\A p \in Procs :
          ( /\ req[p].pc \in {"bookCheckCoach", "bookCheckClient", "bookTxn"}
            /\ \E b \in BookingIds : Clashes(b, req[p]) )
          => /\ bookings' = bookings
             /\ feedbacks' = feedbacks
             /\ req'[p].pc = "done" => HttpStatus(req'[p].err) = 409]_vars

\* C4: a cancelled booking stays cancelled and the histories of its two ledgers
\* never change again.
C4_CancelledIsTerminal ==
    [][\A b \in BookingIds :
          bookings[b].state = "cancelled"
          => /\ bookings'[b].state = "cancelled"
             /\ feedbacks'[bookings[b].clientFeedback] = ClientLedger(b)
             /\ feedbacks'[bookings[b].coachFeedback] = CoachLedger(b)]_vars

C6_BookAllOrNothing ==
    /\ \A l \in FeedbackIds :
          \E b \in BookingIds : bookings[b].clientFeedback = l \/ bookings[b].coachFeedback = l
    /\ \A b \in BookingIds :
          bookings[b].clientFeedback \in FeedbackIds /\ bookings[b].coachFeedback \in FeedbackIds
    /\ Len(feedbacks) = 2 * Len(bookings)

C6_Witness ==
    \E p \in Procs :
        /\ Finished(p, "book")
        /\ req[p].err = "Internal"
        /\ Len(bookings) >= 1

\* C7: a cancel by the client or coach of a scheduled booking succeeds and sets
\* the state to cancelled when the booking's date is at least 12 full hours
\* after now, and otherwise fails with the lead-time rejection (400) and leaves
\* the booking scheduled.
C7_CancelLeadTime ==
    [][\A p \in Procs :
          ( /\ req[p].pc = "cancelBooking"
            /\ req'[p].pc = "done"
            /\ bookings[req[p].bookingId].state = "scheduled"
            /\ IsParty(req[p].bookingId, req[p].userId) )
          => IF bookings[req[p].bookingId].date - now >= 12 * MsPerHour
             THEN /\ req'[p].err = "ok"
                  /\ bookings'[req[p].bookingId].state = "cancelled"
             ELSE /\ req'[p].err = "LeadTime"
                  /\ HttpStatus(req'[p].err) = 400
                  /\ bookings' = bookings]_vars

\* a cancel rejected 1 ms short of 12 hours before the booking's date
C7_Witness ==
    \E p \in Procs :
        /\ Finished(p, "cancel")
        /\ req[p].err = "LeadTime"
        /\ bookings[req[p].bookingId].state = "scheduled"
        /\ bookings[req[p].bookingId].date - now = 12 * MsPerHour - 1

\* C8: a cancel succeeds only on a booking whose state is scheduled; on a
\* cancelled, completed or waiting_for_feedback booking it ends rejected and
\* changes nothing.
C8_CancelOnlyScheduled ==
    [][\A p \in Procs :
          (req[p].pc = "cancelBooking" /\ req'[p].pc = "done")
          => /\ req'[p].err = "ok" => bookings[req[p].bookingId].state = "scheduled"
             /\ bookings[req[p].bookingId].state
                    \in {"cancelled", "completed", "waiting_for_feedback"}
                => /\ HttpStatus(req'[p].err) >= 400
                   /\ bookings' = bookings
                   /\ feedbacks' = feedbacks]_vars

\* a repeated cancel by a party of the booking, rejected
C8_Witness ==
    \E p \in Procs :
        /\ Finished(p, "cancel")
        /\ req[p].err = "AlreadyCancelled"
        /\ bookings[req[p].bookingId].state = "cancelled"

\* C9: addFeedback by the client or coach of a scheduled booking is rejected
\* (400) without changing anything while the slot's end on the booking day lies
\* ahead; once that instant is reached it passes the checks, none of its later
\* steps fails, and it ends in success with the booking completed.
C9_FeedbackAfterSlotEnd ==
    [][\A p \in Procs :
          /\ ( /\ req[p].pc = "fbCheck"
               /\ req'[p] # req[p]
               /\ bookings[req[p].bookingId].state = "scheduled"
               /\ IsParty(req[p].bookingId, req[p].userId) )
             => IF SlotEnd(req[p].bookingId) > now
                THEN /\ req'[p].pc = "done"
                     /\ req'[p].err = "NotEnded"
                     /\ HttpStatus(req'[p].err) = 400
                     /\ bookings' = bookings
                     /\ feedbacks' = feedbacks
                ELSE req'[p].pc = "fbLedger"
          /\ ( /\ req[p].pc \in {"fbLedger", "fbBooking", "fbCommit"}
               /\ req'[p].pc = "done" )
             => /\ req'[p].err = "ok"
                /\ bookings'[req[p].bookingId].state = "completed"]_vars

\* feedback accepted at the very instant the slot ends
C9_Witness ==
    \E p \in Procs :
        /\ Finished(p, "feedback")
        /\ req[p].err = "ok"
        /\ req[p].snap.state = "scheduled"
        /\ bookings[req[p].bookingId].state = "completed"
        /\ SlotEnd(req[p].bookingId) = now

\* C10: an addFeedback after the slot's end by a party whose ledger for the
\* booking already holds an entry succeeds and makes that ledger's history one
\* entry longer, and adds no ledger.
C10_SecondFeedbackAppends ==
    [][\A p \in Procs :
          ( /\ req[p].op = "feedback"
            /\ req[p].pc # "done"
            /\ req'[p].pc = "done"
            /\ IsParty(req[p].bookingId, req[p].userId)
            /\ SlotEnd(req[p].bookingId) <= now
            /\ Len(feedbacks[LedgerOf(req[p])].history) >= 1 )
          => /\ req'[p].err = "ok"
             /\ Len(feedbacks'[LedgerOf(req[p])].history)
                    = Len(feedbacks[LedgerOf(req[p])].history) + 1
             /\ Len(feedbacks') = Len(feedbacks)]_vars

\* C11: when a cancel and an addFeedback that both read the same scheduled
\* booking are interleaved, they do not both succeed; a booking whose
\* addFeedback succeeded is not cancelled and a booking whose cancel succeeded
\* is not completed.
C11_CancelFeedbackExclusive ==
    \A p \in Procs, q \in Procs :
        ( /\ p # q
          /\ Finished(p, "cancel")
          /\ Finished(q, "feedback")
          /\ req[p].bookingId = req[q].bookingId
          /\ req[p].snap.state = "scheduled"
          /\ req[q].snap.state = "scheduled" )
        => /\ ~(req[p].err = "ok" /\ req[q].err = "ok")
           /\ req[q].err = "ok" => bookings[req[q].bookingId].state # "cancelled"
           /\ req[p].err = "ok" => bookings[req[p].bookingId].state # "completed"

\* the ledger of booking b in the direction of actor u has one entry more after
\* the step
EntryAdded(b, u) ==
    LET l == IF u = bookings[b].clientId THEN bookings[b].clientFeedback
             ELSE bookings[b].coachFeedback
    IN  /\ l \in FeedbackIds
        /\ Len(feedbacks') = Len(feedbacks)
        /\ Len(feedbacks'[l].history) = Len(feedbacks[l].history) + 1

\* C12: addFeedback is atomic.  The step that ends an addFeedback in success
\* stores its entry and leaves the booking completed; an addFeedback that ends
\* in an error, at whichever step, leaves bookings and ledgers as committed; no
\* other step of an addFeedback changes either collection; and a booking only
\* becomes completed in a step that stores an entry in one of its ledgers.
C12_AddFeedbackAtomic ==
    [][/\ \A p \in Procs :
            (req[p].op = "feedback" /\ req[p].pc # "done" /\ req'[p].pc # req[p].pc)
            => IF req'[p].pc = "done" /\ req'[p].err = "ok"
               THEN /\ EntryAdded(req[p].bookingId, req[p].userId)
                    /\ bookings'[req[p].bookingId].state = "completed"
               ELSE bookings' = bookings /\ feedbacks' = feedbacks
       /\ \A b \in BookingIds :
            (bookings[b].state # "completed" /\ bookings'[b].state = "completed")
            => EntryAdded(b, bookings[b].clientId) \/ EntryAdded(b, bookings[b].coachId)]_vars

\* an addFeedback that failed inside its transaction, nothing of it persisted
C12_Witness ==
    \E p \in Procs :
        /\ Finished(p, "feedback")
        /\ req[p].err = "FeedbackFailed"
        /\ bookings[req[p].bookingId].state = "scheduled"
        /\ ClientLedger(req[p].bookingId).history = <<>>
        /\ CoachLedger(req[p].bookingId).history = <<>>

C13_WitnessFeedback ==
    \E p \in Procs :
        /\ Finished(p, "feedback")
        /\ req[p].err = "Forbidden"
        /\ ~IsParty(req[p].bookingId, req[p].userId)

\* the answer r of an availability query offers slot s of coach c: a record of
\* the composite query for c has s as its slot or among its alternatives, or
\* the slot listing has s with isBooked false
ReportsFree(r, c, s) ==
    /\ r.err = "ok"
    /\ \E i \in 1..Len(r.res) :
          IF r.op = "search"
          THEN /\ r.res[i].coachId = c
               /\ r.res[i].timeSlotId = s \/ SeqContains(r.res[i].alternativeTimeSlots, s)
          ELSE r.res[i].id = s /\ ~r.res[i].isBooked

\* p asks an availability query in this step that covers slot s of coach c on
\* date d, and the directory answers its lookups
Asks(p, c, s, d) ==
    /\ req[p].pc = "idle"
    /\ req'[p].pc = "done"
    /\ req'[p].op \in {"search", "slots"}
    /\ req'[p].up = Coaches
    /\ (IF req'[p].date = NoDate THEN startOfDay(now) ELSE req'[p].date) = d
    /\ req'[p].coachId \in {NoUser, c}
    /\ req'[p].timeSlotId \in {0, s}

\* C14: an availability query for date D asked right after a successful book of
\* coach C, slot S and date D, before S starts on D, does not offer S for C, and
\* one asked right after the successful cancel of that booking offers S for C.
C14_AvailabilityRoundTrip ==
    [][\A p \in Procs, q \in Procs :
          ( /\ req[p].pc = "done"
            /\ req[p].op \in {"book", "cancel"}
            /\ req[p].err = "ok"
            /\ now < setHours(bookings[req[p].bookingId].date,
                              TimeSlotModel[bookings[req[p].bookingId].timeSlotId].startTime)
            /\ Asks(q, bookings[req[p].bookingId].coachId,
                       bookings[req[p].bookingId].timeSlotId,
                       bookings[req[p].bookingId].date) )
          => ( ReportsFree(req'[q], bookings[req[p].bookingId].coachId,
                                    bookings[req[p].bookingId].timeSlotId)
               <=> req[p].op = "cancel" )]_vars

\* C15: a scheduled booking whose slot's end has passed reaches the state
\* waiting_for_feedback.
C15_ReachesWaitingForFeedback ==
    \A b \in 1..MaxBookings :
        (b \in BookingIds /\ bookings[b].state = "scheduled" /\ SlotEnd(b) <= now)
        ~> (b \in BookingIds /\ bookings[b].state = "waiting_for_feedback")

\* C16: every request that a handler has accepted is eventually answered, with
\* a result or an error, whatever the directory does.
C16_RequestsComplete ==
    \A p \in Procs : (req[p].pc # "idle") ~> (req[p].pc = "done")

\* p is answered a composite availability query in this step
Searches(p) == req[p].pc = "idle" /\ req'[p].pc = "done" /\ req'[p].op = "search"

\* C17: a composite availability query in which the lookup of some coach fails
\* or finds nothing, and which would succeed if every lookup answered, succeeds
\* and returns exactly the records of the coaches whose lookup answered.
C17_NullCoachFiltered ==
    [][\A p \in Procs :
          Searches(p)
          => LET r == req'[p]
                 full == searchWorkoutUsingFilters(r.workoutId, r.coachId, r.timeSlotId,
                                                   r.date, Coaches, now)
                 answered(rec) == rec.coachId \in r.up
             IN  full.err = "ok"
                 => r.err = "ok" /\ r.res = SelectSeq(full.res, answered)]_vars

\* the slots of the catalog that a query for date d can offer at instant t:
\* all of them, or on the day of t those that start after t
Searchable(d, t) ==
    {s \in catalog :
        \/ startOfDay(IF d = NoDate THEN t ELSE d) # startOfDay(t)
        \/ startOfDay(t) + TimeSlotModel[s].startTime[1] * MsPerHour
                         + TimeSlotModel[s].startTime[2] * MsPerMinute > t}

\* C18: the composite availability query answers an empty catalog with one
\* error, a day on which no slot is left after the cut-off with a second one, and
\* a requested slot that is not among the slots left with a third one, each a
\* 404; it never answers with success and an empty list.
C18_UnsearchableIsError ==
    [][\A p \in Procs :
          Searches(p)
          => LET r == req'[p]
             IN  /\ r.err = "ok" => Len(r.res) > 0
                 /\ catalog = {} => r.err = "NoTimeSlots"
                 /\ (catalog # {} /\ Searchable(r.date, now) = {}) => r.err = "NoSlotsToday"
                 /\ ( /\ Searchable(r.date, now) # {}
                      /\ r.timeSlotId # 0
                      /\ r.timeSlotId \notin Searchable(r.date, now) )
                    => r.err = "SlotUnavailable"
                 /\ r.err \in {"NoTimeSlots", "NoSlotsToday", "SlotUnavailable"}
                    => HttpStatus(r.err) = 404]_vars

\* a query for today asked after the last slot has started
C18_Witness ==
    \E p \in Procs :
        /\ Finished(p, "search")
        /\ req[p].err = "NoSlotsToday"
        /\ catalog # {}
        /\ Searchable(req[p].date, now) = {}

C18_WitnessEmptyCatalog ==
    \E p \in Procs : Finished(p, "search") /\ req[p].err = "NoTimeSlots" /\ catalog = {}

C18_WitnessSlotPassed ==
    \E p \in Procs :
        /\ Finished(p, "search")
        /\ req[p].err = "SlotUnavailable"
        /\ req[p].timeSlotId \in catalog
        /\ Searchable(req[p].date, now) # {}

\* C19: every booking references a ledger from its client to its coach and
\* another one from its coach to its client, no ledger is referenced by two
\* bookings or left unreferenced, and a step of addFeedback adds no ledger.
C19_OneLedgerPerDirection ==
    /\ \A b \in BookingIds :
          /\ bookings[b].clientFeedback \in FeedbackIds
          /\ bookings[b].coachFeedback \in FeedbackIds
          /\ bookings[b].clientFeedback # bookings[b].coachFeedback
          /\ ClientLedger(b).from = bookings[b].clientId
          /\ ClientLedger(b).to = bookings[b].coachId
          /\ CoachLedger(b).from = bookings[b].coachId
          /\ CoachLedger(b).to = bookings[b].clientId
    /\ \A b1 \in BookingIds, b2 \in BookingIds :
          b1 # b2 => {bookings[b1].clientFeedback, bookings[b1].coachFeedback}
                        \cap {bookings[b2].clientFeedback, bookings[b2].coachFeedback} = {}
    /\ Cardinality({bookings[b].clientFeedback : b \in BookingIds}
                       \cup {bookings[b].coachFeedback : b \in BookingIds}) = Len(feedbacks)

\* two bookings, and a feedback stored for one of them
C19_Witness ==
    /\ Len(bookings) = 2
    /\ \E p \in Procs :
          /\ Finished(p, "feedback")
          /\ req[p].err = "ok"
          /\ Len(feedbacks[LedgerOf(req[p])].history) = 1

\* what C20 asks of a book request at the instant t of the call
Bookable(workoutId, coachId, timeSlotId, date, t) ==
    /\ date # InvalidDate
    /\ startOfDay(date) >= startOfDay(t)
    /\ coachId \in Coaches
    /\ workoutId \in DOMAIN WorkoutModel
    /\ WorkoutModel[workoutId].coachId = coachId
    /\ timeSlotId \in catalog
    /\ startOfDay(date) + TimeSlotModel[timeSlotId].endTime[1] * MsPerHour
                        + TimeSlotModel[timeSlotId].endTime[2] * MsPerMinute > t

\* C20: a book request whose date is invalid or before today, whose coach is
\* unknown, whose workout is missing or of another coach, whose slot is missing
\* or has ended on the booking date, ends at once with a 400 or a 404 and creates
\* nothing; bookings and ledgers are only created by a request that passed
\* these checks when it was called.
C20_BookValidation ==
    [][/\ \A p \in Procs :
            (req[p].pc = "idle" /\ req'[p].op = "book")
            => \/ Bookable(req'[p].workoutId, req'[p].coachId, req'[p].timeSlotId,
                           req'[p].date, now)
               \/ /\ req'[p].pc = "done"
                  /\ HttpStatus(req'[p].err) \in {400, 404}
                  /\ bookings' = bookings
                  /\ feedbacks' = feedbacks
       /\ (Len(bookings') > Len(bookings) \/ Len(feedbacks') > Len(feedbacks))
          => \E p \in Procs : /\ req[p].op = "book"
                              /\ req[p].pc = "bookTxn"
                              /\ req'[p].pc = "done"
                              /\ req'[p].err = "ok"]_vars

\* a request for today's slot 1 made while the slot is running, rejected
C20_Witness ==
    \E p \in Procs :
        /\ Finished(p, "book")
        /\ req[p].err = "SlotPassed"
        /\ setHours(req[p].date, TimeSlotModel[req[p].timeSlotId].startTime) < now
        /\ setHours(req[p].date, TimeSlotModel[req[p].timeSlotId].endTime) > now

C20_WitnessBooked ==
    \E p \in Procs :
        /\ Finished(p, "book")
        /\ req[p].err = "ok"
        /\ startOfDay(req[p].date) = startOfDay(now)

\* C21: the step that ends an addFeedback of the booking's client in success
\* appends exactly one entry, the one submitted, to the client-to-coach ledger of
\* that booking and changes no other ledger; an addFeedback of the coach does so
\* with the coach-to-client ledger.
C21_FeedbackFrame ==
    [][\A p \in Procs :
          ( /\ req[p].op = "feedback"
            /\ req[p].pc # "done"
            /\ req'[p].pc = "done"
            /\ req'[p].err = "ok" )
          => LET b == req[p].bookingId
                 l == IF req[p].userId = bookings[b].clientId
                      THEN bookings[b].clientFeedback ELSE bookings[b].coachFeedback
             IN  /\ IsParty(b, req[p].userId)
                 /\ Len(feedbacks') = Len(feedbacks)
                 /\ feedbacks'[l].history = Append(feedbacks[l].history, [rating |-> req[p].rating])
                 /\ feedbacks'[l].from = req[p].userId
                 /\ \A k \in FeedbackIds : k # l => feedbacks'[k] = feedbacks[k]]_vars

\* a feedback of the coach stored while a second booking exists
C21_Witness ==
    \E p \in Procs :
        /\ Finished(p, "feedback")
        /\ req[p].err = "ok"
        /\ req[p].userId = bookings[req[p].bookingId].coachId
        /\ Len(CoachLedger(req[p].bookingId).history) = 1
        /\ Len(ClientLedger(req[p].bookingId).history) = 0
        /\ Len(bookings) = 2

C21_WitnessClient ==
    \E p \in Procs :
        /\ Finished(p, "feedback")
        /\ req[p].err = "ok"
        /\ req[p].userId = bookings[req[p].bookingId].clientId
        /\ Len(ClientLedger(req[p].bookingId).history) = 1

IsPrefix(s, t) == Len(s) <= Len(t) /\ SubSeq(t, 1, Len(s)) = s

\* C22: no step removes a booking or a ledger or changes whom they belong to,
\* and every ledger's history before a step is a prefix of its history after
\* it, also when two addFeedback requests write to the same ledger.
C22_AppendOnly ==
    [][/\ Len(bookings') >= Len(bookings)
       /\ Len(feedbacks') >= Len(feedbacks)
       /\ \A b \in BookingIds :
              /\ bookings'[b].clientId = bookings[b].clientId
              /\ bookings'[b].coachId = bookings[b].coachId
              /\ bookings'[b].timeSlotId = bookings[b].timeSlotId
              /\ bookings'[b].date = bookings[b].date
              /\ bookings'[b].clientFeedback = bookings[b].clientFeedback
              /\ bookings'[b].coachFeedback = bookings[b].coachFeedback
       /\ \A k \in FeedbackIds :
              /\ feedbacks'[k].from = feedbacks[k].from
              /\ feedbacks'[k].to = feedbacks[k].to
              /\ IsPrefix(feedbacks[k].history, feedbacks'[k].history)]_vars

\* a ledger that was appended to twice
C22_Witness ==
    \E k \in FeedbackIds :
        /\ Len(feedbacks[k].history) = 2
        /\ feedbacks[k].history[1] # feedbacks[k].history[2]

\* two addFeedback requests of one user for one booking ran together
C22_WitnessConcurrent ==
    /\ Finished("r1", "feedback")
    /\ Finished("r2", "feedback")
    /\ req["r1"].bookingId = req["r2"].bookingId
    /\ req["r1"].userId = req["r2"].userId
    /\ req["r1"].err = "ok"
    /\ req["r2"].err = "FeedbackFailed"
    /\ Len(feedbacks[LedgerOf(req["r1"])].history) = 1

\* C27: when requests are served one at a time, a booking never has more than
\* one feedback entry in its two ledgers together, so its two ledgers are never
\* both non-empty.
C27_OneEntryPerBooking ==
    \A b \in BookingIds :
        Len(ClientLedger(b).history) + Len(CoachLedger(b).history) <= 1

\* the other party's feedback was refused after the first entry was stored
C27_Witness ==
    \E p \in Procs, b \in BookingIds :
        /\ Finished(p, "feedback")
        /\ req[p].bookingId = b
        /\ req[p].err = "Completed"
        /\ req[p].userId = bookings[b].coachId
        /\ Len(ClientLedger(b).history) = 1
        /\ Len(CoachLedger(b).history) = 0

\* C23: a slot listing that succeeds holds every slot of the catalog once, and
\* a slot is flagged isBooked exactly when the coach has a booking that is not
\* cancelled for that slot on the calendar day of the date asked for, whatever
\* the time of day of either date.
C23_ListingFlagsSameDay ==
    [][\A p \in Procs :
          ( /\ req[p].pc = "idle"
            /\ req'[p].pc = "done"
            /\ req'[p].op = "slots"
            /\ req'[p].err = "ok" )
          => LET r == req'[p]
             IN  /\ {r.res[i].id : i \in 1..Len(r.res)} = catalog
                 /\ Len(r.res) = Cardinality(catalog)
                 /\ \A i \in 1..Len(r.res) :
                        r.res[i].isBooked
                            <=> \E b \in BookingIds :
                                    /\ bookings[b].coachId = r.coachId
                                    /\ bookings[b].timeSlotId = r.res[i].id
                                    /\ bookings[b].state # "cancelled"
                                    /\ SameDay(bookings[b].date, r.date)]_vars

\* C24: in an answer of the composite query, the slots offered for a coach (the
\* selected slot and the alternatives) are exactly the slots the cut-off keeps
\* for which that coach has no booking that is not cancelled on the date
\* searched; a booking of another coach for a slot does not remove the slot.
C24_OfferedPerCoach ==
    [][\A p \in Procs :
          ( /\ req[p].pc = "idle"
            /\ req'[p].pc = "done"
            /\ req'[p].op = "search"
            /\ req'[p].err = "ok" )
          => LET r == req'[p]
                 day == startOfDay(IF r.date = NoDate THEN now ELSE r.date)
                 kept == {s \in catalog :
                             day = startOfDay(now)
                                 => setHours(now, TimeSlotModel[s].startTime) > now}
                 taken(c) == {bookings[b].timeSlotId : b \in
                                 {k \in BookingIds : /\ bookings[k].coachId = c
                                                     /\ bookings[k].state # "cancelled"
                                                     /\ SameDay(bookings[k].date, day)}}
                 offered(i) == {r.res[i].timeSlotId}
                                   \cup {r.res[i].alternativeTimeSlots[j] :
                                            j \in 1..Len(r.res[i].alternativeTimeSlots)}
             IN  \A i \in 1..Len(r.res) : offered(i) = kept \ taken(r.res[i].coachId)]_vars

\* C26: the statistics of a coach count, for each rating r, the ledgers
\* addressed to the coach whose most recent history entry has rating r, and
\* totalReviews is the number of ledgers addressed to the coach.
C26_StatsFromLatestEntry ==
    [][\A p \in Procs :
          ( /\ req[p].pc = "idle"
            /\ req'[p].pc = "done"
            /\ req'[p].op = "stats" )
          => LET out == req'[p].res[1]
                 to == {k \in FeedbackIds : feedbacks[k].to = req'[p].coachId}
                 latest(k) == feedbacks[k].history[Len(feedbacks[k].history)].rating
             IN  /\ out.totalReviews = Cardinality(to)
                 /\ \A r \in 1..5 :
                        out.ratingDistribution[r]
                            = Cardinality({k \in to : /\ Len(feedbacks[k].history) > 0
                                                      /\ latest(k) = r})]_vars

\* C25: after a coach profile update with a specialization list that lacks a
\* workout type the coach held before, the empty list included, the coach has
\* no mapping for that workout type.
C25_RemovalCascades ==
    [][\A p \in Procs :
          ( /\ req[p].op = "profile"
            /\ req[p].pc = "profUpdate"
            /\ req'[p].pc = "done"
            /\ req'[p].err = "ok" )
          => \A t \in Elems(CoachDataModel[req[p].coachId]) \ Elems(req[p].ids) :
                 MappingsOf(WorkoutModel', req[p].coachId, t) = {}]_vars

\* C28: whatever createMappings calls were made, with an id repeated in a list
\* or two calls with common ids at once, a coach has at most one mapping for a
\* workout type.
C28_OneMappingPerType ==
    \A c \in Coaches, t \in WorkoutTypes :
        Cardinality(MappingsOf(WorkoutModel, c, t)) <= 1

\* C29: a refreshToken request with a token that verifies under the refresh
\* secret but is not the token stored for its user (a later login or refresh
\* replaced it, a logout or a password change cleared it) is answered 401 and
\* issues no tokens.
C29_StaleRefreshRejected ==
    [][\A p \in Procs :
          ( /\ req[p].pc = "idle"
            /\ req'[p].op = "refresh"
            /\ jwtVerifyRefresh(req'[p].token, now)
            /\ User[req'[p].token.userId].refreshToken # req'[p].token )
          => /\ req'[p].pc = "done"
             /\ HttpStatus(req'[p].err) = 401
             /\ req'[p].res = <<>>
             /\ issued' = issued
             /\ User' = User]_vars

\* C30: App.start begins to listen only when the connect() call it awaited has
\* left the database connected: no failed attempt is reported to it as success.
C30_ListensOnlyConnected ==
    [][(app # "listening" /\ app' = "listening") => db'.isConnected]_vars

====
